---- MODULE Spec2Model ----
(***************************************************************************)
(* Model of src/llm_utcp_client.py: the two-phase orchestration loop       *)
(* handle_user_query, the lazily created shared UTCP client (init_utcp)    *)
(* and the tool-call parser extract_tool_json; and of _merge_to_model of   *)
(* src/app.py as netconf_commit calls it.                                  *)
(*                                                                         *)
(* Text is modelled as a sequence of tokens.  A token is one lexical unit  *)
(* of the reply: a punctuation character of JSON, the double quote "Q",    *)
(* a run of spaces "sp", a newline "nl", the three-backtick fence "F", or  *)
(* a word.                                                                 *)
(* JSON string literals are NOT atomic: they are Q, content tokens, Q, so  *)
(* that the regular expressions see braces and fences inside strings just  *)
(* as the Python `re` module does.                                         *)
(***************************************************************************)
EXTENDS Integers, Sequences, FiniteSets, TLC

VARIABLES
    reply_obj,  \* parser runs: the JSON object the reply was written from
    reply_form, \* parser runs: the shape of the reply around that object
    s,          \* parser runs: the reply text handed to extract_tool_json
    parsed,     \* parser runs: the value extract_tool_json returned
    ppc         \* parser runs: "off" | "input" | "extracted"

VARIABLES
    utcp_client,    \* the module global _utcp_client: 0 is None, else a handle
    created,        \* number of UtcpClient.create calls started so far
    create_failed,  \* number of UtcpClient.create calls that raised
    heap,           \* the Python list objects: heap[ref] is a list of turns
    state,          \* the gr.State value: the ref of the caller-held history
    chain,          \* number of completed exchanges that built heap[state]
    calls,          \* number of on_submit invocations started so far
    req             \* per request slot: position and locals of the coroutine

VARIABLES
    merge           \* merge runs: position, JSON body, query parameters, result

pvars == <<reply_obj, reply_form, s, parsed, ppc>>
mvars == <<merge>>
gvars == <<utcp_client, created, create_failed, heap, state, chain, calls>>
ovars == <<gvars, req>>
vars == <<pvars, ovars, mvars>>

(***************************************************************************)
(* Bounds                                                                  *)
(***************************************************************************)
MaxNest == 2        \* nesting depth of generated arguments objects
MaxLive == 1        \* on_submit invocations started in one behaviour of LiveSpec
MaxCalls == 2       \* on_submit invocations started in one behaviour

Reqs == {"r1", "r2"}    \* request slots that may run concurrently

(***************************************************************************)
(* Small helpers                                                           *)
(***************************************************************************)
Min(S) == CHOOSE x \in S : \A y \in S : x <= y
Max(S) == CHOOSE x \in S : \A y \in S : x >= y

\* t occurs in text as a contiguous run of tokens
Contains(text, t) ==
    \E i \in 1..(Len(text) - Len(t) + 1) : SubSeq(text, i, i + Len(t) - 1) = t

(***************************************************************************)
(* JSON values (what json.loads builds).  Every value has the same four    *)
(* fields so that any two values are comparable:                           *)
(*   k     "none" | "str" | "num" | "arr" | "obj"                          *)
(*   s     content tokens of a string, or the one token of a number        *)
(*   keys  the keys of an object, in insertion order (a Python dict)       *)
(*   items the values of an object (aligned with keys) or of an array      *)
(***************************************************************************)
JNone == [k |-> "none", s |-> <<>>, keys |-> <<>>, items |-> <<>>]
JStr(c) == [k |-> "str", s |-> c, keys |-> <<>>, items |-> <<>>]
JNum(n) == [k |-> "num", s |-> <<n>>, keys |-> <<>>, items |-> <<>>]
JArr(vs) == [k |-> "arr", s |-> <<>>, keys |-> <<>>, items |-> vs]
JObj(ks, vs) == [k |-> "obj", s |-> <<>>, keys |-> ks, items |-> vs]

\* `key in obj` and `obj[key]` of a Python dict
HasKey(o, key) == o.k = "obj" /\ \E i \in 1..Len(o.keys) : o.keys[i] = key
Get(o, key) == o.items[CHOOSE i \in 1..Len(o.keys) : o.keys[i] = key]

\* Python truthiness of a parsed value: None and the empty dict are falsy
Truthy(o) ==
    CASE o.k = "none" -> FALSE
      [] o.k = "obj" -> o.keys # <<>>
      [] o.k = "arr" -> o.items # <<>>
      [] o.k = "str" -> o.s # <<>>
      [] OTHER -> o.s # <<"0">>

\* d[key] = val of a Python dict: replaces in place, or appends a new key
DictSet(ks, vs, key, val) ==
    IF \E i \in 1..Len(ks) : ks[i] = key
    THEN LET p == CHOOSE i \in 1..Len(ks) : ks[i] = key
         IN [keys |-> ks, items |-> [vs EXCEPT ![p] = val]]
    ELSE [keys |-> Append(ks, key), items |-> Append(vs, val)]

(***************************************************************************)
(* Lexical classes                                                         *)
(***************************************************************************)
NumToks == {"1", "0"}
IsWs(t) == t \in {"sp", "nl"}

RECURSIVE SkipWs(_, _)
\* index of the first token at or after i that is not whitespace
SkipWs(text, i) ==
    IF i <= Len(text) /\ IsWs(text[i]) THEN SkipWs(text, i + 1) ELSE i

At(text, i, t) == i >= 1 /\ i <= Len(text) /\ text[i] = t

(***************************************************************************)
(* json.loads: a recursive-descent parser over tokens.  A parse result is  *)
(* [ok, val, pos]: pos is the index after the value.                       *)
(***************************************************************************)
PFail == [ok |-> FALSE, val |-> JNone, pos |-> 0]
POk(v, p) == [ok |-> TRUE, val |-> v, pos |-> p]

\* a string literal starting at the quote at index i; a raw newline inside
\* a string is a control character and is rejected by json.loads
ParseString(text, i) ==
    IF ~At(text, i, "Q") THEN PFail
    ELSE LET closes == {e \in (i + 1)..Len(text) : text[e] = "Q"}
         IN IF closes = {} THEN PFail
            ELSE LET e == Min(closes)
                     c == SubSeq(text, i + 1, e - 1)
                 IN IF \E j \in 1..Len(c) : c[j] = "nl" THEN PFail
                    ELSE POk(JStr(c), e + 1)

RECURSIVE ParseValue(_, _)
RECURSIVE ParseMembers(_, _, _, _)
RECURSIVE ParseElements(_, _, _)

\* members of an object, from index i (just after "{" or ",")
ParseMembers(text, i, ks, vs) ==
    LET key == ParseString(text, SkipWs(text, i))
    IN IF ~key.ok THEN PFail
       ELSE LET c == SkipWs(text, key.pos)
            IN IF ~At(text, c, ":") THEN PFail
               ELSE LET v == ParseValue(text, c + 1)
                    IN IF ~v.ok THEN PFail
                       ELSE LET d == DictSet(ks, vs, key.val.s, v.val)
                                n == SkipWs(text, v.pos)
                            IN IF At(text, n, ",")
                               THEN ParseMembers(text, n + 1, d.keys, d.items)
                               ELSE IF At(text, n, "}")
                               THEN POk(JObj(d.keys, d.items), n + 1)
                               ELSE PFail

\* elements of an array, from index i (just after "[" or ",")
ParseElements(text, i, vs) ==
    LET v == ParseValue(text, i)
    IN IF ~v.ok THEN PFail
       ELSE LET n == SkipWs(text, v.pos)
            IN IF At(text, n, ",")
               THEN ParseElements(text, n + 1, Append(vs, v.val))
               ELSE IF At(text, n, "]")
               THEN POk(JArr(Append(vs, v.val)), n + 1)
               ELSE PFail

ParseValue(text, i0) ==
    LET i == SkipWs(text, i0)
    IN IF i > Len(text) THEN PFail
       ELSE IF text[i] = "{"
       THEN LET j == SkipWs(text, i + 1)
            IN IF At(text, j, "}") THEN POk(JObj(<<>>, <<>>), j + 1)
               ELSE ParseMembers(text, i + 1, <<>>, <<>>)
       ELSE IF text[i] = "["
       THEN LET j == SkipWs(text, i + 1)
            IN IF At(text, j, "]") THEN POk(JArr(<<>>), j + 1)
               ELSE ParseElements(text, i + 1, <<>>)
       ELSE IF text[i] = "Q" THEN ParseString(text, i)
       ELSE IF text[i] \in NumToks THEN POk(JNum(text[i]), i + 1)
       ELSE PFail

\* json.loads(text): [ok, val]; ok = FALSE stands for the raised exception
json_loads(text) ==
    LET r == ParseValue(text, 1)
    IN IF r.ok /\ SkipWs(text, r.pos) = Len(text) + 1
       THEN [ok |-> TRUE, val |-> r.val]
       ELSE [ok |-> FALSE, val |-> JNone]

(***************************************************************************)
(* json.dumps(v, indent=2): newline, one "sp" per indent level             *)
(***************************************************************************)
RECURSIVE Indent(_)
Indent(d) == IF d = 0 THEN <<>> ELSE <<"sp">> \o Indent(d - 1)

RECURSIVE Dumps(_, _)
RECURSIVE DumpsItems(_, _, _, _)

\* the members (or elements) from index i on, each on its own line
DumpsItems(v, i, d, isObj) ==
    IF i > Len(v.items) THEN <<>>
    ELSE <<"nl">> \o Indent(d)
         \o (IF isObj THEN <<"Q">> \o v.keys[i] \o <<"Q", ":", "sp">> ELSE <<>>)
         \o Dumps(v.items[i], d)
         \o (IF i < Len(v.items) THEN <<",">> ELSE <<>>)
         \o DumpsItems(v, i + 1, d, isObj)

Dumps(v, d) ==
    CASE v.k = "str" -> <<"Q">> \o v.s \o <<"Q">>
      [] v.k = "num" -> v.s
      [] v.k = "none" -> <<"null">>
      [] v.k = "arr" ->
            IF v.items = <<>> THEN <<"[", "]">>
            ELSE <<"[">> \o DumpsItems(v, 1, d + 1, FALSE)
                 \o <<"nl">> \o Indent(d) \o <<"]">>
      [] v.k = "obj" ->
            IF v.keys = <<>> THEN <<"{", "}">>
            ELSE <<"{">> \o DumpsItems(v, 1, d + 1, TRUE)
                 \o <<"nl">> \o Indent(d) \o <<"}">>

json_dumps(v) == Dumps(v, 0)

(***************************************************************************)
(* The two regular expressions of extract_tool_json.  A match is           *)
(* [found, group]: group is m.group(1).                                    *)
(***************************************************************************)
NoMatch == [found |-> FALSE, group |-> <<>>]

\* indices e at which the lazy `.*?` of TOOL_JSON_RE may stop when the
\* group opened at index j: a "}" followed by optional whitespace and a fence
FenceCloses(text, j) ==
    {e \in (j + 1)..Len(text) :
        text[e] = "}" /\ At(text, SkipWs(text, e + 1), "F")}

\* TOOL_JSON_RE matches starting at index i
FenceMatchesAt(text, i) ==
    /\ At(text, i, "F")
    /\ At(text, i + 1, "json")
    /\ At(text, SkipWs(text, i + 2), "{")
    /\ FenceCloses(text, SkipWs(text, i + 2)) # {}

\* TOOL_JSON_RE.search(text): leftmost start, then the shortest group
TOOL_JSON_RE(text) ==
    LET starts == {i \in 1..Len(text) : FenceMatchesAt(text, i)}
    IN IF starts = {} THEN NoMatch
       ELSE LET j == SkipWs(text, Min(starts) + 2)
                e == Min(FenceCloses(text, j))
            IN [found |-> TRUE, group |-> SubSeq(text, j, e)]

\* re.search(r"(\{[\s\S]*\})", text): first "{" to the LAST "}" (greedy)
FallbackSearch(text) ==
    LET opens == {i \in 1..Len(text) : text[i] = "{"}
    IN IF opens = {} THEN NoMatch
       ELSE LET i == Min(opens)
                closes == {e \in (i + 1)..Len(text) : text[e] = "}"}
            IN IF closes = {} THEN NoMatch
               ELSE [found |-> TRUE, group |-> SubSeq(text, i, Max(closes))]

\* an exception raised inside extract_tool_json and not caught there
JRaised == [k |-> "raised", s |-> <<>>, keys |-> <<>>, items |-> <<>>]

\* variant of LoadsOrNone: no try/except around json.loads
LoadsOrRaise(r) == IF r.ok THEN r.val ELSE JRaised

\* try: return json.loads(...)  except Exception: return None
LoadsOrNone(r) == IF r.ok THEN r.val ELSE JNone

\* extract_tool_json(s): JNone stands for Python's None
extract_tool_json(text) ==
    LET m1 == TOOL_JSON_RE(text)
        m == IF ~m1.found THEN FallbackSearch(text) ELSE m1
    IN IF ~m.found THEN JNone
       ELSE LoadsOrNone(json_loads(m.group))

(***************************************************************************)
(* Replies a completion model may write.  Compact is the one-line JSON     *)
(* text of a value; a reply wraps the text of an object in one of the      *)
(* ReplyForms.                                                             *)
(***************************************************************************)
RECURSIVE Compact(_)
RECURSIVE CompactItems(_, _, _)

CompactItems(v, i, isObj) ==
    IF i > Len(v.items) THEN <<>>
    ELSE (IF isObj THEN <<"Q">> \o v.keys[i] \o <<"Q", ":">> ELSE <<>>)
         \o Compact(v.items[i])
         \o (IF i < Len(v.items) THEN <<",">> ELSE <<>>)
         \o CompactItems(v, i + 1, isObj)

Compact(v) ==
    CASE v.k = "str" -> <<"Q">> \o v.s \o <<"Q">>
      [] v.k = "num" -> v.s
      [] v.k = "none" -> <<"null">>
      [] v.k = "arr" -> <<"[">> \o CompactItems(v, 1, FALSE) \o <<"]">>
      [] v.k = "obj" -> <<"{">> \o CompactItems(v, 1, TRUE) \o <<"}">>

KTool == <<"tool_name">>
KArgs == <<"arguments">>

\* a tool call as the phase-1 system prompt asks for it
ToolCall(name, args) == JObj(<<KTool, KArgs>>, <<JStr(<<name>>), args>>)

\* string contents: a plain word, and two that hold braces and fences
PlainStrings == {<<"x">>}
FenceStrings == {<<"}", "sp", "F">>, <<"F", "json", "sp", "{", "}", "sp", "F">>}

RECURSIVE ArgsOf(_)
\* arguments objects nested at most d deep
ArgsOf(d) ==
    IF d = 0
    THEN {JObj(<<>>, <<>>), JObj(<< <<"a">> >>, <<JNum("1")>>)}
         \cup {JObj(<< <<"a">> >>, <<JStr(c)>>) : c \in PlainStrings \cup FenceStrings}
    ELSE ArgsOf(d - 1)
         \cup {JObj(<< <<"a">>, <<"b">> >>, <<v, JNum("0")>>) : v \in ArgsOf(d - 1)}

ValidCalls == {ToolCall("t", a) : a \in ArgsOf(MaxNest)}

\* objects that are not tool calls: a key missing, arguments not an object
InvalidCalls ==
    { JObj(<<>>, <<>>),
      JObj(<<KTool>>, <<JStr(<<"t">>)>>),
      JObj(<<KArgs>>, <<JObj(<<>>, <<>>)>>),
      ToolCall("t", JNum("1")),
      ToolCall("t", JStr(<<"x">>)),
      ToolCall("t", JArr(<<JNum("1")>>)),
      ToolCall("t", JArr(<<>>)) }

ReplyObjects == ValidCalls \cup InvalidCalls

ReplyForms == {"fenced", "fenced_pretty", "bare", "prose", "untagged",
               "two", "fence_then_text", "malformed", "unclosed", "text",
               "fenced_cut"}

Second == Compact(JObj(<< <<"a">> >>, <<JNum("1")>>))

ReplyText(o, form) ==
    CASE form = "fenced" -> <<"F", "json", "nl">> \o Compact(o) \o <<"nl", "F">>
      [] form = "fenced_pretty" ->
            <<"x", "sp", "F", "json", "nl">> \o json_dumps(o) \o <<"nl", "F", "nl", "x">>
      [] form = "bare" -> Compact(o)
      [] form = "prose" -> <<"x", "sp">> \o json_dumps(o) \o <<"sp", "x">>
      [] form = "untagged" -> <<"F", "nl">> \o Compact(o) \o <<"nl", "F">>
      [] form = "two" -> Compact(o) \o <<"sp", "x", "sp">> \o Second
      [] form = "fence_then_text" ->
            <<"F", "json", "nl">> \o Compact(o) \o <<"nl", "F", "sp", "x", "sp", "}">>
      [] form = "malformed" -> <<"{", "x">> \o Compact(o) \o <<"}">>
      [] form = "unclosed" -> SubSeq(Compact(o), 1, Len(Compact(o)) - 1)
      [] form = "fenced_cut" ->
            <<"F", "json", "nl", "{">> \o SubSeq(Compact(o), 3, Len(Compact(o)))
            \o <<"nl", "F">>
      [] form = "text" -> <<"x", "sp", "x">>

(***************************************************************************)
(* Conversation turns, messages and the Python list heap                   *)
(***************************************************************************)
Turn(role, content) == [role |-> role, content |-> content]

\* variant of ListCopy: `history = state_history`, an alias and no copy
ListCopyAliased(h, ref) == [heap |-> h, ref |-> ref]

\* list.copy(): a new list object with the same elements
ListCopy(h, ref) == [heap |-> Append(h, h[ref]), ref |-> Len(h) + 1]

\* a fresh empty list: the `[]` of `st or []`
ListNew(h) == [heap |-> Append(h, <<>>), ref |-> Len(h) + 1]

\* variant of ListAppend: list.insert(0, x)
ListInsertFirst(h, ref, x) == [h EXCEPT ![ref] = <<x>> \o @]

\* list.append(x): in place, seen through every reference to the list
ListAppend(h, ref, x) == [h EXCEPT ![ref] = Append(@, x)]

TOOL_CALL_SYSTEM == <<"TOOL_CALL_SYSTEM">>
FINAL_ANSWER_SYSTEM == <<"FINAL_ANSWER_SYSTEM">>

build_tool_call_messages(history, tools_json) ==
    <<Turn("system", TOOL_CALL_SYSTEM \o tools_json \o <<"nl">>)>> \o history

\* variant of build_final_messages: the phase-1 instruction is reused and
\* the tool output is left out of the last turn
build_final_messages_bare(history, tool_output) ==
    <<Turn("system", TOOL_CALL_SYSTEM)>> \o history
    \o <<Turn("user", <<"Please answer the original request.">>)>>

build_final_messages(history, tool_output) ==
    <<Turn("system", FINAL_ANSWER_SYSTEM)>> \o history
    \o <<Turn("user", <<"Tool output:", "nl">> \o tool_output
                      \o <<"nl", "nl", "Please answer the original request using this output.">>)>>

(***************************************************************************)
(* The UTCP registry: tools, discovery, remote calls                       *)
(***************************************************************************)
Tool(name) == JObj(<< <<"name">> >>, <<JStr(<<name>>)>>)

\* what client.search_tools("netconf", limit=50) returns
Registry == <<Tool("t"), Tool("u")>>

RegistryNames == {Registry[i].items[1].s : i \in 1..Len(Registry)}

\* variant of tools_to_json_for_prompt: only the first tool is serialized
tools_to_json_truncated(tools) == json_dumps(JArr(SubSeq(tools, 1, Min({1, Len(tools)}))))

tools_to_json_for_prompt(tools) == json_dumps(JArr(tools))

\* values a successful call_tool may return
ToolResults == {JObj(<< <<"ok">> >>, <<JNum("1")>>)}

\* str(e) of the exceptions call_tool may raise
NotFound == <<"not", "sp", "found">>
CallErrors == {<<"timeout">>}

\* the errors call_tool(tool_name, arguments) can raise: an unknown name
\* always raises; a known one may fail in transport or on the tool side
RaisableBy(tool_name) ==
    IF tool_name.k = "str" /\ tool_name.s \in RegistryNames
    THEN CallErrors ELSE {NotFound}

CanSucceed(tool_name) == tool_name.k = "str" /\ tool_name.s \in RegistryNames

RECURSIVE PyRepr(_)
RECURSIVE PyReprItems(_, _, _)

PyReprItems(v, i, isObj) ==
    IF i > Len(v.items) THEN <<>>
    ELSE (IF isObj THEN <<"'">> \o v.keys[i] \o <<"'", ":", "sp">> ELSE <<>>)
         \o PyRepr(v.items[i])
         \o (IF i < Len(v.items) THEN <<",", "sp">> ELSE <<>>)
         \o PyReprItems(v, i + 1, isObj)

\* repr(v) of a parsed JSON value
PyRepr(v) ==
    CASE v.k = "str" -> <<"'">> \o v.s \o <<"'">>
      [] v.k = "num" -> v.s
      [] v.k = "none" -> <<"None">>
      [] v.k = "arr" -> <<"[">> \o PyReprItems(v, 1, FALSE) \o <<"]">>
      [] v.k = "obj" -> <<"{">> \o PyReprItems(v, 1, TRUE) \o <<"}">>

\* str(v), as an f-string formats it
PyStr(v) == IF v.k = "str" THEN v.s ELSE PyRepr(v)

\* the text built by the except branch of the tool call
ToolErrorText(tool_name, arguments, e) ==
    <<"Tool call error for", "sp">> \o PyStr(tool_name) \o <<"sp", "with args", "sp">>
    \o PyStr(arguments) \o <<":", "nl">> \o e

(***************************************************************************)
(* Inputs of the orchestrator                                              *)
(***************************************************************************)
\* the n-th request of a behaviour carries its own text
UserText(n) == <<"q", ToString(n)>>

ArgA1 == JObj(<< <<"a">> >>, <<JNum("1")>>)

\* phase-1 completions: every branch of the parser and of the orchestrator
Phase1Replies ==
    { ReplyText(JNone, "text"),
      ReplyText(JObj(<<KTool>>, <<JStr(<<"t">>)>>), "bare"),
      ReplyText(ToolCall("t", ArgA1), "fenced"),
      ReplyText(ToolCall("z", JObj(<<>>, <<>>)), "bare"),
      ReplyText(ToolCall("t", JNum("1")), "bare"),
      ReplyText(ToolCall("t", ArgA1), "malformed"),
      ReplyText(ToolCall("t", ArgA1), "fenced_cut") }

\* phase-2 completions
Phase2Replies == {<<"answer">>}

(***************************************************************************)
(* src/app.py: POST /netconf/commit, body and query parameters merged      *)
(* Values are written as text: "None" is Python's None; Absent marks a key *)
(* that a JSON object or a dict does not hold.                             *)
(***************************************************************************)
Absent == "absent"

\* CommitRequest(BaseConn): the fields followed here
Fields == {"host", "port", "confirmed", "comment"}

\* the defaults of the model; host is required
Default ==
    [f \in Fields |->
        CASE f = "host" -> Absent
          [] f = "port" -> "830"
          [] f = "confirmed" -> "false"
          [] f = "comment" -> "None"]

\* the values a client may send for each field
FieldValues ==
    [f \in Fields |->
        CASE f = "host" -> {"h1", "h2"}
          [] f = "port" -> {"0", "22"}
          [] f = "confirmed" -> {"false", "true"}
          [] f = "comment" -> {"", "c"}]

\* JSON bodies FastAPI accepts as a CommitRequest: host is present
JsonBodies ==
    {b \in [Fields -> {Absent, "h1", "h2", "0", "22", "false", "true", "", "c"}] :
        /\ b["host"] # Absent
        /\ \A f \in Fields : b[f] = Absent \/ b[f] \in FieldValues[f]}

NoBody == [f \in Fields |-> "no body"]

\* the query parameters as the endpoint receives them: Query(None)
QueryParams ==
    {q \in [Fields -> {"None", "h1", "h2", "0", "22", "false", "true", "", "c"}] :
        \A f \in Fields : q[f] = "None" \/ q[f] \in FieldValues[f]}

\* model_cls(**data): defaults for the keys not given; a required key
\* that is missing is a validation error
CommitRequest(data) ==
    IF \E f \in Fields : data[f] = Absent /\ Default[f] = Absent
    THEN [ok |-> FALSE, fields |-> [f \in Fields |-> Absent]]
    ELSE [ok |-> TRUE,
          fields |-> [f \in Fields |-> IF data[f] = Absent THEN Default[f] ELSE data[f]]]

\* body.dict(): every field of the validated body, defaults included
BodyDict(body) == CommitRequest(body).fields

\* variant of Supplied: `if v:`
SuppliedTruthy(v) == v \notin {"None", "false", "0", ""}

\* `if v is not None`
Supplied(v) == v # "None"

merge_to_model(body, overrides) ==
    LET data == IF body # NoBody THEN BodyDict(body) ELSE [f \in Fields |-> Absent]
        merged == [f \in Fields |-> IF Supplied(overrides[f]) THEN overrides[f] ELSE data[f]]
    IN CommitRequest(merged)

MergeOff == [pc |-> "off", body |-> NoBody, query |-> NoBody, req |-> NoBody]

(***************************************************************************)
(* One request slot: the coroutine on_submit -> handle_user_query          *)
(***************************************************************************)
NoRet == [call |-> <<>>, result |-> <<>>, answer |-> <<>>, history |-> 0]

Idle ==
    [ pc |-> "idle",            \* idle creating discover phase1 executing phase2 done raised
      user_text |-> <<>>,
      st |-> 0,                 \* ref of the gr.State list on_submit received
      state_history |-> 0,      \* ref of the list passed to handle_user_query
      entry |-> <<>>,           \* the turns of that list when the call started
      depth |-> 0,              \* the value of chain when the call started
      new_client |-> 0,         \* the handle UtcpClient.create is building
      client |-> 0,
      tools |-> <<>>,           \* the list discover_tools returned
      tools_json |-> <<>>,
      history |-> 0,            \* ref of the local list `history`
      msgs |-> <<>>,            \* messages of the latest chat_complete call
      assistant_raw |-> <<>>,
      tool_obj |-> JNone,
      call_name |-> JNone,      \* first argument given to client.call_tool
      call_args |-> JNone,      \* second argument given to client.call_tool
      exec_error |-> <<>>,      \* str(e) when call_tool raised, else <<>>
      tool_result_text |-> <<>>,
      final_answer |-> <<>>,
      completions |-> 0,        \* chat_complete calls of this invocation
      tool_calls |-> 0,         \* call_tool calls of this invocation
      failed |-> "",            \* the awaited call that raised: create discover chat
      ret |-> NoRet ]           \* the returned tuple

\* the condition of the `if` that takes the no-tool branch
IsNoTool(tool_obj) ==
    \/ ~Truthy(tool_obj)
    \/ ~HasKey(tool_obj, KTool)
    \/ ~HasKey(tool_obj, KArgs)

\* variant of NoToolReturn: an empty tool-result text and an empty answer
NoToolReturnBlank(raw, history) ==
    [call |-> raw, result |-> <<>>, answer |-> <<>>, history |-> history]

\* the tuple returned by the no-tool branch
NoToolReturn(raw, history) ==
    [call |-> raw, result |-> <<"(no tool called)">>, answer |-> raw,
     history |-> history]

\* the tuple returned after the synthesis phase
ToolReturn(tool_obj, tool_result_text, final_answer, history) ==
    [call |-> json_dumps(tool_obj), result |-> tool_result_text,
     answer |-> final_answer, history |-> history]

\* an exception leaving handle_user_query: nothing is returned
Raise(q) == [q EXCEPT !.pc = "raised"]

\* variant of ChatRaise: the completion call is issued once more
ChatRaiseRetried(q) ==
    IF q.completions < 3 THEN [q EXCEPT !.completions = @ + 1] ELSE Raise(q)

\* variant of ChatRaise: the error is swallowed and what there is so far
\* is returned
ChatRaiseSwallowed(q) ==
    [q EXCEPT !.pc = "done",
              !.ret = [call |-> q.assistant_raw, result |-> q.tool_result_text,
                       answer |-> <<>>, history |-> q.history]]

\* chat_complete raised: no try/except around either call
ChatRaise(q) == Raise(q)

\* init_utcp up to its first suspension: the check of the global, then
\* either the early return (and on to discover_tools) or the start of create
InitUtcp(q, global, n) ==
    IF global # 0
    THEN [q EXCEPT !.client = global, !.pc = "discover"]
    ELSE [q EXCEPT !.new_client = n + 1, !.pc = "creating"]

StartsCreate(global) == global = 0

\* the history a session holds after one earlier exchange without a tool
EarlierExchange ==
    <<Turn("user", UserText(0)), Turn("assistant", ReplyText(JNone, "text"))>>

\* The process after import, with gr.State(value=[]); or the same process
\* after one exchange has completed, which has built the client and left
\* its two turns in the session's history.
Init ==
    /\ \/ /\ utcp_client = 0
          /\ created = 0
          /\ heap = << <<>> >>
          /\ chain = 0
       \/ /\ utcp_client = 1
          /\ created = 1
          /\ heap = << EarlierExchange >>
          /\ chain = 1
    /\ create_failed = 0
    /\ state = 1
    /\ calls = 0
    /\ req = [r \in Reqs |-> Idle]
    /\ reply_obj = JNone
    /\ reply_form = "text"
    /\ s = <<>>
    /\ parsed = JNone
    /\ ppc = "off"
    /\ merge = MergeOff

\* request slots are interchangeable: a new request takes "r1" when free
FreeSlot(r) ==
    /\ req[r].pc = "idle"
    /\ r = "r1" \/ req["r1"].pc # "idle"

\* on_submit calls handle_user_query(user_text, st or []), which runs
\* init_utcp up to its first await
Submit(r) ==
    /\ FreeSlot(r)
    /\ calls < MaxCalls
    /\ \E text \in {UserText(calls + 1)} :
        LET arg == IF heap[state] = <<>> THEN ListNew(heap)
                   ELSE [heap |-> heap, ref |-> state]
            q == [req[r] EXCEPT !.user_text = text,
                                !.st = state,
                                !.depth = chain,
                                !.state_history = arg.ref,
                                !.entry = arg.heap[arg.ref]]
        IN /\ heap' = arg.heap
           /\ req' = [req EXCEPT ![r] = InitUtcp(q, utcp_client, created)]
           /\ created' = IF StartsCreate(utcp_client) THEN created + 1 ELSE created
    /\ calls' = calls + 1
    /\ UNCHANGED <<utcp_client, create_failed, state, chain, pvars, mvars>>

\* UtcpClient.create returns: assign the global, return it, await search_tools
CreateOk(r) ==
    /\ req[r].pc = "creating"
    /\ utcp_client' = req[r].new_client
    /\ req' = [req EXCEPT ![r] = [@ EXCEPT !.client = utcp_client', !.pc = "discover"]]
    /\ UNCHANGED <<created, create_failed, heap, state, chain, calls, pvars, mvars>>

\* variant of CreateFail: the global is assigned the half-built handle
\* before the failure shows
CreateFailHalfBuilt(r) ==
    /\ req[r].pc = "creating"
    /\ create_failed' = create_failed + 1
    /\ utcp_client' = req[r].new_client
    /\ req' = [req EXCEPT ![r] = Raise([@ EXCEPT !.failed = "create"])]
    /\ UNCHANGED <<created, heap, state, chain, calls, pvars, mvars>>

\* UtcpClient.create raises: the global is not assigned
CreateFail(r) ==
    /\ req[r].pc = "creating"
    /\ create_failed' = create_failed + 1
    /\ req' = [req EXCEPT ![r] = Raise([@ EXCEPT !.failed = "create"])]
    /\ UNCHANGED <<utcp_client, created, heap, state, chain, calls, pvars, mvars>>

\* search_tools returns: copy the history, append the user turn, build the
\* phase-1 messages, call chat_complete
DiscoverOk(r) ==
    LET q == req[r]
        tools == Registry
        tj == tools_to_json_for_prompt(tools)
        c == ListCopy(heap, q.state_history)
        h == ListAppend(c.heap, c.ref, Turn("user", q.user_text))
    IN /\ q.pc = "discover"
       /\ heap' = h
       /\ req' = [req EXCEPT ![r] =
                    [q EXCEPT !.tools = tools,
                              !.tools_json = tj,
                              !.history = c.ref,
                              !.msgs = build_tool_call_messages(h[c.ref], tj),
                              !.completions = @ + 1,
                              !.pc = "phase1"]]
       /\ UNCHANGED <<utcp_client, created, create_failed, state, chain, calls, pvars, mvars>>

DiscoverFail(r) ==
    /\ req[r].pc = "discover"
    /\ req' = [req EXCEPT ![r] = Raise([@ EXCEPT !.failed = "discover"])]
    /\ UNCHANGED <<gvars, pvars, mvars>>

\* the no-tool branch: append the raw reply and return; there is no
\* try/except around the call of extract_tool_json, so an exception
\* leaving it would leave handle_user_query as well
NoToolBranch(q, h, raw, tool_obj) ==
    IF tool_obj = JRaised
    THEN [heap |-> h, q |-> Raise([q EXCEPT !.assistant_raw = raw])]
    ELSE [heap |-> ListAppend(h, q.history, Turn("assistant", raw)),
          q |-> [q EXCEPT !.assistant_raw = raw,
                          !.tool_obj = tool_obj,
                          !.ret = NoToolReturn(raw, q.history),
                          !.pc = "done"]]

\* phase-1 completion returns and no tool call is found: return
Phase1NoTool(r) ==
    /\ req[r].pc = "phase1"
    /\ \E raw \in Phase1Replies :
        LET tool_obj == extract_tool_json(raw)
            a == NoToolBranch(req[r], heap, raw, tool_obj)
        IN /\ IsNoTool(tool_obj)
           /\ heap' = a.heap
           /\ req' = [req EXCEPT ![r] = a.q]
    /\ UNCHANGED <<utcp_client, created, create_failed, state, chain, calls, pvars, mvars>>

\* phase-1 completion returns with a tool call: call_tool
Phase1Tool(r) ==
    /\ req[r].pc = "phase1"
    /\ \E raw \in Phase1Replies :
        LET q == req[r]
            tool_obj == extract_tool_json(raw)
        IN /\ ~IsNoTool(tool_obj)
           /\ req' = [req EXCEPT ![r] =
                        [q EXCEPT !.assistant_raw = raw,
                                  !.tool_obj = tool_obj,
                                  !.call_name = Get(tool_obj, KTool),
                                  !.call_args = Get(tool_obj, KArgs),
                                  !.tool_calls = @ + 1,
                                  !.pc = "executing"]]
    /\ UNCHANGED <<gvars, pvars, mvars>>

Phase1Fail(r) ==
    /\ req[r].pc = "phase1"
    /\ req' = [req EXCEPT ![r] = ChatRaise([@ EXCEPT !.failed = "chat"])]
    /\ UNCHANGED <<gvars, pvars, mvars>>

\* variant of AfterTool: the tool JSON and the result both become turns
AfterToolResultTurn(q, h, text, e) ==
    LET h1 == ListAppend(h, q.history, Turn("assistant", json_dumps(q.tool_obj)))
        h2 == ListAppend(h1, q.history, Turn("assistant", text))
    IN [heap |-> h2,
        q |-> [q EXCEPT !.tool_result_text = text,
                        !.exec_error = e,
                        !.msgs = build_final_messages(h2[q.history], text),
                        !.completions = @ + 1,
                        !.pc = "phase2"]]

\* variant of AfterTool: the result is returned without a synthesis call
AfterToolNoSynthesis(q, h, text, e) ==
    LET h2 == ListAppend(h, q.history, Turn("assistant", json_dumps(q.tool_obj)))
    IN [heap |-> h2,
        q |-> [q EXCEPT !.tool_result_text = text,
                        !.exec_error = e,
                        !.ret = ToolReturn(q.tool_obj, text, text, q.history),
                        !.pc = "done"]]

\* after the try/except: append the serialized call, build the phase-2
\* messages, call chat_complete
AfterTool(q, h, text, e) ==
    LET h2 == ListAppend(h, q.history, Turn("assistant", json_dumps(q.tool_obj)))
    IN [heap |-> h2,
        q |-> [q EXCEPT !.tool_result_text = text,
                        !.exec_error = e,
                        !.msgs = build_final_messages(h2[q.history], text),
                        !.completions = @ + 1,
                        !.pc = "phase2"]]

\* call_tool returns a value
ToolOk(r) ==
    /\ req[r].pc = "executing"
    /\ CanSucceed(Get(req[r].tool_obj, KTool))
    /\ \E tool_result \in ToolResults :
        LET a == AfterTool(req[r], heap, json_dumps(tool_result), <<>>)
        IN /\ heap' = a.heap
           /\ req' = [req EXCEPT ![r] = a.q]
    /\ UNCHANGED <<utcp_client, created, create_failed, state, chain, calls, pvars, mvars>>

\* variant of OnToolRaise: the failed call is issued once more
OnToolRaiseRetried(q, h, e) ==
    IF q.tool_calls < 2
    THEN [heap |-> h, q |-> [q EXCEPT !.tool_calls = @ + 1]]
    ELSE AfterTool(q, h, ToolErrorText(Get(q.tool_obj, KTool), Get(q.tool_obj, KArgs), e), e)

\* variant of OnToolRaise: no try/except, the error leaves the function
OnToolRaiseUncaught(q, h, e) == [heap |-> h, q |-> Raise(q)]

\* `except Exception as e`: the error becomes the tool result text and
\* the function carries on
OnToolRaise(q, h, e) ==
    AfterTool(q, h, ToolErrorText(Get(q.tool_obj, KTool), Get(q.tool_obj, KArgs), e), e)

\* call_tool raises
ToolRaise(r) ==
    /\ req[r].pc = "executing"
    /\ \E e \in RaisableBy(Get(req[r].tool_obj, KTool)) :
        LET a == OnToolRaise(req[r], heap, e)
        IN /\ heap' = a.heap
           /\ req' = [req EXCEPT ![r] = a.q]
    /\ UNCHANGED <<utcp_client, created, create_failed, state, chain, calls, pvars, mvars>>

\* phase-2 completion returns: append the answer, return
Phase2Ok(r) ==
    /\ req[r].pc = "phase2"
    /\ \E final_answer \in Phase2Replies :
        LET q == req[r]
        IN /\ heap' = ListAppend(heap, q.history, Turn("assistant", final_answer))
           /\ req' = [req EXCEPT ![r] =
                        [q EXCEPT !.final_answer = final_answer,
                                  !.ret = ToolReturn(q.tool_obj, q.tool_result_text,
                                                     final_answer, q.history),
                                  !.pc = "done"]]
    /\ UNCHANGED <<utcp_client, created, create_failed, state, chain, calls, pvars, mvars>>

Phase2Fail(r) ==
    /\ req[r].pc = "phase2"
    /\ req' = [req EXCEPT ![r] = ChatRaise([@ EXCEPT !.failed = "chat"])]
    /\ UNCHANGED <<gvars, pvars, mvars>>

\* on_submit returns new_state, which becomes the gr.State value
Return(r) ==
    /\ req[r].pc = "done"
    /\ state' = req[r].ret.history
    /\ chain' = req[r].depth + 1
    /\ req' = [req EXCEPT ![r] = Idle]
    /\ UNCHANGED <<utcp_client, created, create_failed, heap, calls, pvars, mvars>>

\* the exception leaves on_submit: no output is written
Propagate(r) ==
    /\ req[r].pc = "raised"
    /\ req' = [req EXCEPT ![r] = Idle]
    /\ UNCHANGED <<gvars, pvars, mvars>>

Next ==
    \E r \in Reqs :
        \/ Submit(r)
        \/ CreateOk(r)
        \/ CreateFail(r)
        \/ DiscoverOk(r)
        \/ DiscoverFail(r)
        \/ Phase1NoTool(r)
        \/ Phase1Tool(r)
        \/ Phase1Fail(r)
        \/ ToolOk(r)
        \/ ToolRaise(r)
        \/ Phase2Ok(r)
        \/ Phase2Fail(r)
        \/ Return(r)
        \/ Propagate(r)

Spec == Init /\ [][Next]_vars

\* the resumption of request r's coroutine when the call it awaits has
\* returned or raised, and the delivery of its outcome to the caller
Resume(r) ==
    \/ CreateOk(r)
    \/ CreateFail(r)
    \/ DiscoverOk(r)
    \/ DiscoverFail(r)
    \/ Phase1NoTool(r)
    \/ Phase1Tool(r)
    \/ Phase1Fail(r)
    \/ ToolOk(r)
    \/ ToolRaise(r)
    \/ Phase2Ok(r)
    \/ Phase2Fail(r)
    \/ Return(r)
    \/ Propagate(r)

\* Every awaited network call ends (the transport's timeout), and the
\* event loop resumes the coroutine that awaits it.
\* the history a session holds after one earlier exchange with a tool
EarlierToolExchange ==
    <<Turn("user", UserText(0)),
      Turn("assistant", json_dumps(ToolCall("t", ArgA1))),
      Turn("assistant", <<"answer">>)>>

\* as Init, the earlier exchange being of either kind
LiveInit ==
    /\ \/ /\ utcp_client = 0
          /\ created = 0
          /\ heap = << <<>> >>
          /\ chain = 0
       \/ /\ utcp_client = 1
          /\ created = 1
          /\ heap \in { << EarlierExchange >>, << EarlierToolExchange >> }
          /\ chain = 1
    /\ create_failed = 0
    /\ state = 1
    /\ calls = 0
    /\ req = [r \in Reqs |-> Idle]
    /\ reply_obj = JNone
    /\ reply_form = "text"
    /\ s = <<>>
    /\ parsed = JNone
    /\ ppc = "off"
    /\ merge = MergeOff

LiveSubmit(r) ==
    /\ calls < MaxLive
    /\ Submit(r)

LiveNext ==
    \E r \in Reqs :
        \/ LiveSubmit(r)
        \/ Resume(r)

LiveSpec ==
    /\ LiveInit
    /\ [][LiveNext]_vars
    /\ \A r \in Reqs : WF_vars(Resume(r))

(***************************************************************************)
(* Parser runs: extract_tool_json applied to one reply                     *)
(***************************************************************************)
ParserInit ==
    /\ utcp_client = 0
    /\ created = 0
    /\ create_failed = 0
    /\ heap = << <<>> >>
    /\ state = 1
    /\ chain = 0
    /\ calls = 0
    /\ req = [r \in Reqs |-> Idle]
    /\ reply_obj \in ReplyObjects
    /\ reply_form \in ReplyForms
    /\ s = ReplyText(reply_obj, reply_form)
    /\ parsed = JNone
    /\ ppc = "input"
    /\ merge = MergeOff

Extract ==
    /\ ppc = "input"
    /\ parsed' = extract_tool_json(s)
    /\ ppc' = "extracted"
    /\ UNCHANGED <<reply_obj, reply_form, s, ovars, mvars>>

ParserNext == Extract

ParserSpec == ParserInit /\ [][ParserNext]_vars

(***************************************************************************)
(* Merge runs: _merge_to_model applied to one request                      *)
(***************************************************************************)
MergeInit ==
    /\ utcp_client = 0
    /\ created = 0
    /\ create_failed = 0
    /\ heap = << <<>> >>
    /\ state = 1
    /\ chain = 0
    /\ calls = 0
    /\ req = [r \in Reqs |-> Idle]
    /\ reply_obj = JNone
    /\ reply_form = "text"
    /\ s = <<>>
    /\ parsed = JNone
    /\ ppc = "off"
    /\ \E body \in JsonBodies \cup {NoBody}, query \in QueryParams :
          merge = [pc |-> "request", body |-> body, query |-> query, req |-> NoBody]

\* netconf_commit calls _merge_to_model(CommitRequest, body, host=host, ...)
Merge ==
    /\ merge.pc = "request"
    /\ LET r == merge_to_model(merge.body, merge.query)
       IN merge' = [merge EXCEPT !.pc = IF r.ok THEN "merged" ELSE "raised",
                                 !.req = r.fields]
    /\ UNCHANGED <<pvars, ovars>>

MergeNext == Merge

MergeSpec == MergeInit /\ [][MergeNext]_vars

(***************************************************************************)
(* Properties of handle_user_query (checked under Spec)                    *)
(***************************************************************************)
\* the phase-1 reply yields no tool call: nothing parseable, or a parsed
\* object lacking tool_name or arguments
NoCallReplies ==
    {raw \in Phase1Replies :
        LET o == extract_tool_json(raw)
        IN o = JNone \/ ~HasKey(o, KTool) \/ ~HasKey(o, KArgs)}

NoCallParsed(raw) == raw \in NoCallReplies

\* the turns the returned list holds beyond those of the list passed in
Returned(q) == heap[q.ret.history]

\* C1: an invocation whose phase-1 reply yields no tool call returns the
\* tool-result text "(no tool called)", the raw reply both as final answer
\* and as proposed call, and the input history plus exactly two turns:
\* (user, userText) then (assistant, rawReply).
ClaimC1 ==
    \A r \in Reqs :
        LET q == req[r]
        IN (q.pc = "done" /\ NoCallParsed(q.assistant_raw)) =>
              /\ q.ret.result = <<"(no tool called)">>
              /\ q.ret.answer = q.assistant_raw
              /\ q.ret.call = q.assistant_raw
              /\ Returned(q) = q.entry \o <<Turn("user", q.user_text),
                                            Turn("assistant", q.assistant_raw)>>

WitnessC1 ==
    \E r \in Reqs :
        /\ req[r].pc = "done"
        /\ NoCallParsed(req[r].assistant_raw)
        /\ req[r].entry # <<>>

ClaimC3 ==
    /\ created - create_failed <= 1
    /\ \A r1, r2 \in Reqs :
          (req[r1].client # 0 /\ req[r2].client # 0) => req[r1].client = req[r2].client

\* C4: on every path the list the caller passed in keeps its turns, and the
\* list worked on and returned is another list object.
ClaimC4 ==
    \A r \in Reqs :
        LET q == req[r]
        IN q.pc # "idle" =>
              /\ heap[q.state_history] = q.entry
              /\ heap[q.st] = q.entry
              /\ q.history # 0 => q.history \notin {q.state_history, q.st}
              /\ q.pc = "done" => q.ret.history \notin {q.state_history, q.st}

WitnessC4 ==
    \E r \in Reqs :
        /\ req[r].pc = "done"
        /\ req[r].entry # <<>>
        /\ Len(Returned(req[r])) = Len(req[r].entry) + 3

\* C5: an invocation never makes more than two completion calls; a
\* completed one has made exactly one when no tool was called and exactly
\* two when one was; a completion that failed ends the invocation.
ClaimC5 ==
    \A r \in Reqs :
        LET q == req[r]
        IN /\ q.completions <= 2
           /\ q.pc = "done" => q.completions = (IF q.tool_calls = 0 THEN 1 ELSE 2)
           /\ q.pc = "done" => (q.tool_calls = 0 <=> IsNoTool(q.tool_obj))
           /\ q.failed = "chat" =>
                 /\ q.pc = "raised"
                 /\ q.completions = (IF q.tool_calls = 0 THEN 1 ELSE 2)

WitnessC5 ==
    \E r1, r2 \in Reqs :
        /\ req[r1].pc = "done" /\ req[r1].completions = 2
        /\ req[r2].pc = "raised" /\ req[r2].failed = "chat"

\* C6: after a fatal failure (create, discovery or either completion call)
\* the invocation has raised: nothing is returned, and the caller's list
\* holds the turns it held at the call.
ClaimC6 ==
    \A r \in Reqs :
        LET q == req[r]
        IN q.failed # "" =>
              /\ q.pc = "raised"
              /\ q.ret = NoRet
              /\ heap[q.state_history] = q.entry
              /\ heap[q.st] = q.entry

WitnessC6 ==
    \E r \in Reqs :
        /\ req[r].pc = "raised"
        /\ req[r].failed = "chat"
        /\ req[r].completions = 2
        /\ req[r].entry # <<>>

\* C7: the tool executor is invoked only for a parsed object that holds
\* both tool_name and arguments and whose arguments value is a JSON object.
ClaimC7 ==
    \A r \in Reqs :
        LET q == req[r]
        IN q.tool_calls > 0 =>
              /\ HasKey(q.tool_obj, KTool)
              /\ HasKey(q.tool_obj, KArgs)
              /\ Get(q.tool_obj, KArgs).k = "obj"

(***************************************************************************)
(* Properties of extract_tool_json (checked under ParserSpec)              *)
(***************************************************************************)
HasFence(text) == \E i \in 1..Len(text) : text[i] = "F"

\* C8: when the JSON-tagged fenced block matches but its content does not
\* parse, and the brace-delimited substring of the whole reply does parse,
\* extract_tool_json returns that parsed object.
ClaimC8 ==
    ppc = "extracted" =>
        LET m1 == TOOL_JSON_RE(s)
            m2 == FallbackSearch(s)
        IN (/\ m1.found
            /\ ~json_loads(m1.group).ok
            /\ m2.found
            /\ json_loads(m2.group).ok) => parsed = json_loads(m2.group).val

\* C9: for an unfenced reply holding a valid tool-call object followed by
\* text with a second JSON object, extract_tool_json returns the first
\* object.
ClaimC9 ==
    (/\ ppc = "extracted"
     /\ reply_form = "two"
     /\ reply_obj \in ValidCalls
     /\ ~HasFence(s)) => parsed = reply_obj

\* C10: for every tool-call object, the reply holding it in a JSON-tagged
\* fenced block and the reply holding it unfenced as the only
\* brace-delimited text both yield that object.
ClaimC10 ==
    (/\ ppc = "extracted"
     /\ reply_obj \in ValidCalls
     /\ reply_form \in {"fenced", "bare"}) => parsed = reply_obj

\* the span the parser's regular expressions pick in the reply is not JSON
MalformedReplies ==
    {raw \in Phase1Replies :
        LET m1 == TOOL_JSON_RE(raw)
            m == IF m1.found THEN m1 ELSE FallbackSearch(raw)
        IN m.found /\ ~json_loads(m.group).ok}

MalformedSpan(raw) == raw \in MalformedReplies

FencedReplies == {raw \in Phase1Replies : TOOL_JSON_RE(raw).found}

\* C11: when the matched span (fenced or brace-delimited) of the phase-1
\* reply is malformed JSON, nothing is raised: the parser yields None, no
\* tool is called, and the invocation is done with the raw reply as final
\* answer and as last turn.
ClaimC11 ==
    \A r \in Reqs :
        LET q == req[r]
        IN (q.assistant_raw # <<>> /\ MalformedSpan(q.assistant_raw)) =>
              /\ q.pc = "done"
              /\ q.failed = ""
              /\ q.tool_obj = JNone
              /\ q.tool_calls = 0
              /\ q.ret.answer = q.assistant_raw
              /\ q.ret.result = <<"(no tool called)">>
              /\ Returned(q)[Len(Returned(q))] = Turn("assistant", q.assistant_raw)

WitnessC11 ==
    \E r1, r2 \in Reqs :
        /\ req[r1].pc = "done" /\ req[r2].pc = "done"
        /\ MalformedSpan(req[r1].assistant_raw)
        /\ MalformedSpan(req[r2].assistant_raw)
        /\ req[r1].assistant_raw \in FencedReplies
        /\ req[r2].assistant_raw \notin FencedReplies

\* what extract_tool_json yields for each phase-1 reply
ParsedOf == [raw \in Phase1Replies |-> extract_tool_json(raw)]

\* C12: an invocation calls the remote tool at most once: not at all when
\* it returns on the no-tool branch, exactly once otherwise, with the
\* tool_name and arguments parsed from the phase-1 reply, and not again
\* after the call has raised.
ClaimC12 ==
    \A r \in Reqs :
        LET q == req[r]
        IN /\ q.tool_calls <= 1
           /\ (q.pc = "done" /\ q.ret.result = <<"(no tool called)">>) => q.tool_calls = 0
           /\ (q.pc = "done" /\ q.ret.result # <<"(no tool called)">>) => q.tool_calls = 1
           /\ q.pc \in {"executing", "phase2"} => q.tool_calls = 1
           /\ q.exec_error # <<>> => q.tool_calls = 1
           /\ q.tool_calls > 0 =>
                 /\ q.call_name = Get(ParsedOf[q.assistant_raw], KTool)
                 /\ q.call_args = Get(ParsedOf[q.assistant_raw], KArgs)

WitnessC12 ==
    \E r \in Reqs :
        /\ req[r].pc = "done"
        /\ req[r].exec_error # <<>>
        /\ req[r].tool_calls = 1
        /\ req[r].call_args = ArgA1

\* the moves of one invocation's position
PcMoves ==
    { <<"idle", "creating">>, <<"idle", "discover">>,
      <<"creating", "discover">>, <<"creating", "raised">>,
      <<"discover", "phase1">>, <<"discover", "raised">>,
      <<"phase1", "done">>, <<"phase1", "executing">>, <<"phase1", "raised">>,
      <<"executing", "phase2">>,
      <<"phase2", "done">>, <<"phase2", "raised">>,
      <<"done", "idle">>, <<"raised", "idle">> }

InSequence ==
    \A r \in Reqs :
        \/ req'[r].pc = req[r].pc
        \/ <<req[r].pc, req'[r].pc>> \in PcMoves

\* what has happened by the time an invocation is where it is
StepsBefore(q) ==
    /\ q.completions <= 2
    /\ q.completions >= 1 => q.tools # <<>> /\ q.tools_json # <<>>
    /\ q.pc \in {"idle", "creating", "discover"} => q.completions = 0
    /\ q.pc = "phase1" => q.completions = 1 /\ q.assistant_raw = <<>>
    /\ q.assistant_raw # <<>> => q.completions >= 1
    /\ q.tool_calls > 0 => q.assistant_raw # <<>> /\ ~IsNoTool(ParsedOf[q.assistant_raw])
    /\ q.pc = "executing" => /\ q.completions = 1
                             /\ q.tool_calls = 1
                             /\ q.tool_result_text = <<>>
    /\ q.completions = 2 => /\ q.tool_calls = 1
                            /\ q.tool_result_text # <<>>
                            /\ q.pc \in {"phase2", "done", "raised"}
    /\ q.pc = "done" => (q.completions = 2 <=> q.tool_calls = 1)
    /\ q.pc = "done" => q.failed = ""

\* C13: the steps of an invocation follow in sequence: discovery, then the
\* phase-1 completion, then parsing; the tool runs only after a tool call
\* was parsed and has ended when the phase-2 completion starts; there is a
\* phase-2 completion exactly when a tool was run; and an invocation that
\* meets no fatal failure eventually is done.
ClaimC13 ==
    /\ [][InSequence]_vars
    /\ [](\A r \in Reqs : StepsBefore(req[r]))
    /\ \A r \in Reqs :
          (req[r].pc # "idle") ~> (req[r].pc = "done" \/ req[r].failed # "")

WitnessC13 ==
    \E r \in Reqs :
        /\ req[r].pc = "done"
        /\ req[r].completions = 2
        /\ req[r].tool_calls = 1
        /\ req[r].exec_error = <<>>
        /\ created = 1 /\ utcp_client = 1 /\ chain = 0

\* the turns of the returned list that follow those of the list passed in
NewTurns(q) == SubSeq(Returned(q), Len(q.entry) + 1, Len(Returned(q)))

SystemPrompts == {TOOL_CALL_SYSTEM \o tools_to_json_for_prompt(Registry) \o <<"nl">>}

ToolsShown ==
    [c \in SystemPrompts |-> json_loads(SubSeq(c, Len(TOOL_CALL_SYSTEM) + 1, Len(c)))]

\* C15: the messages of the phase-1 completion are: one system turn (the
\* fixed instruction, then every discovered tool in discovery order), the
\* turns of the input history in order, and the new user turn last.
ClaimC15 ==
    \A r \in Reqs :
        LET q == req[r]
        IN q.completions = 1 =>
              /\ Len(q.msgs) = Len(q.entry) + 2
              /\ q.msgs[1].role = "system"
              /\ SubSeq(q.msgs[1].content, 1, Len(TOOL_CALL_SYSTEM)) = TOOL_CALL_SYSTEM
              /\ q.msgs[1].content \in SystemPrompts
              /\ ToolsShown[q.msgs[1].content] = [ok |-> TRUE, val |-> JArr(q.tools)]
              /\ SubSeq(q.msgs, 2, Len(q.msgs) - 1) = q.entry
              /\ q.msgs[Len(q.msgs)] = Turn("user", q.user_text)

WitnessC15 ==
    \E r \in Reqs :
        /\ req[r].pc = "phase1"
        /\ req[r].completions = 1
        /\ Len(req[r].tools) = 2
        /\ Len(req[r].entry) >= 2

AloneAfterUser(entry, text) ==
    LET c == ListCopy(<<entry>>, 1)
    IN [heap |-> ListAppend(c.heap, c.ref, Turn("user", text)), ref |-> c.ref]

AloneAfterCall(entry, text, tool_obj) ==
    LET a == AloneAfterUser(entry, text)
    IN [heap |-> ListAppend(a.heap, a.ref, Turn("assistant", json_dumps(tool_obj))),
        ref |-> a.ref]

AloneReturned(entry, text, raw, tool_obj, final_answer) ==
    IF IsNoTool(tool_obj)
    THEN LET a == AloneAfterUser(entry, text)
         IN ListAppend(a.heap, a.ref, Turn("assistant", raw))[a.ref]
    ELSE LET a == AloneAfterCall(entry, text, tool_obj)
         IN ListAppend(a.heap, a.ref, Turn("assistant", final_answer))[a.ref]

\* C17: invocations that run concurrently, also when started from the same
\* list, do not interfere through the history: at every stage the list an
\* invocation works on, and the list it returns, is the one it would have
\* built on its own with the same replies; the list passed in is as it
\* was; no new turn is another invocation's.
ClaimC17 ==
    \A r \in Reqs :
        LET q == req[r]
            alone1 == AloneAfterUser(q.entry, q.user_text)
            alone2 == AloneAfterCall(q.entry, q.user_text, q.tool_obj)
        IN /\ q.pc \in {"creating", "discover", "phase1", "executing", "phase2", "done"} =>
                 heap[q.state_history] = q.entry
           /\ q.pc \in {"phase1", "executing"} =>
                 heap[q.history] = alone1.heap[alone1.ref]
           /\ q.pc = "phase2" =>
                 heap[q.history] = alone2.heap[alone2.ref]
           /\ q.pc = "done" =>
                 /\ Returned(q) = AloneReturned(q.entry, q.user_text, q.assistant_raw,
                                                ParsedOf[q.assistant_raw], q.final_answer)
                 /\ \A o \in Reqs \ {r} :
                       req[o].pc # "idle" =>
                          \A i \in 1..Len(NewTurns(q)) :
                              NewTurns(q)[i].content # req[o].user_text

WitnessC17 ==
    \E r1, r2 \in Reqs :
        /\ r1 # r2
        /\ req[r1].pc = "phase2"
        /\ req[r2].pc = "done"
        /\ req[r1].state_history = req[r2].state_history
        /\ req[r1].history # req[r2].history
        /\ req[r1].entry # <<>>
        /\ req[r1].user_text # req[r2].user_text

\* a is the start of b
IsPrefix(a, b) == Len(a) <= Len(b) /\ SubSeq(b, 1, Len(a)) = a

\* what a step may do to the lists: add lists, and add turns at the end
OnlyAppends ==
    /\ Len(heap') >= Len(heap)
    /\ \A i \in 1..Len(heap) : IsPrefix(heap[i], heap'[i])

\* the history a chain of invocations has reached, and what each
\* invocation of the chain returns
ChainGrows ==
    /\ 2 * chain <= Len(heap[state])
    /\ Len(heap[state]) <= 3 * chain
    /\ \A i \in 1..Len(heap[state]) : heap[state][i].role \in {"user", "assistant"}
    /\ \A r \in Reqs :
          LET q == req[r]
          IN q.pc = "done" =>
                /\ IsPrefix(q.entry, Returned(q))
                /\ Len(NewTurns(q)) \in {2, 3}
                /\ NewTurns(q)[1] = Turn("user", q.user_text)
                /\ \A i \in 2..Len(NewTurns(q)) : NewTurns(q)[i].role = "assistant"
                /\ 2 * (q.depth + 1) <= Len(Returned(q))
                /\ Len(Returned(q)) <= 3 * (q.depth + 1)

InitUtcpStep(r) ==
    LET q == req[r]
        q2 == req'[r]
    IN /\ (q.pc = "idle" /\ q2.pc # "idle" /\ utcp_client = 0) =>
             /\ q2.pc = "creating"
             /\ q2.new_client # 0
             /\ q2.client = 0
             /\ created' = created + 1
       /\ (q.pc = "idle" /\ q2.pc # "idle" /\ utcp_client # 0) =>
             /\ q2.pc = "discover"
             /\ q2.client = utcp_client
             /\ q2.new_client = 0
             /\ created' = created
       /\ (q.pc = "creating" /\ q2.pc = "raised") =>
             /\ q2.failed = "create"
             /\ q2.client = 0
             /\ utcp_client' = utcp_client
       /\ (q.pc = "creating" /\ q2.pc = "discover") =>
             /\ utcp_client' = q.new_client
             /\ q2.client = q.new_client

\* C19: a create that raises leaves the global as it was (unset if it was
\* unset), so the next init_utcp constructs again; once a create has
\* returned and none is under way, every later init_utcp returns the
\* global without constructing, and the global no longer changes.
ClaimC19 ==
    [][ /\ \A r \in Reqs : InitUtcpStep(r)
        /\ (utcp_client # 0 /\ \A r \in Reqs : req[r].pc # "creating") =>
              /\ utcp_client' = utcp_client
              /\ created' = created
        /\ utcp_client' # utcp_client =>
              \E r \in Reqs : req[r].pc = "creating" /\ req'[r].pc = "discover" ]_vars

WitnessC19 ==
    \E r \in Reqs :
        /\ create_failed = 1
        /\ created = 2
        /\ utcp_client = 2
        /\ req[r].pc = "done"
        /\ req[r].client = 2
        /\ \A o \in Reqs \ {r} : req[o].pc = "idle"

(***************************************************************************)
(* Properties of _merge_to_model (checked under MergeSpec)                 *)
(***************************************************************************)
\* the value the merged request is to have for field f
Expected(body, query, f) ==
    IF query[f] # "None" THEN query[f]
    ELSE IF body # NoBody /\ body[f] # Absent THEN body[f]
    ELSE Default[f]

\* C20: field by field the merged request has the query parameter's value
\* when the parameter is not None (false, 0 and "" included), else the
\* body's value, else the model's default; a query parameter that is None
\* leaves a body value as it is.
ClaimC20 ==
    /\ merge.pc = "merged" =>
          \A f \in Fields :
              /\ merge.req[f] = Expected(merge.body, merge.query, f)
              /\ merge.req[f] # Absent
              /\ (merge.query[f] = "None" /\ merge.body # NoBody /\ merge.body[f] # Absent) =>
                     merge.req[f] = merge.body[f]
    /\ merge.pc = "raised" => (merge.body = NoBody /\ merge.query["host"] = "None")

WitnessC20 ==
    /\ merge.pc = "merged"
    /\ merge.body # NoBody
    /\ merge.body["confirmed"] = "true" /\ merge.query["confirmed"] = "false"
    /\ merge.body["port"] = "22" /\ merge.query["port"] = "0"
    /\ merge.body["comment"] = "c" /\ merge.query["comment"] = "None"
    /\ merge.req["confirmed"] = "false"
    /\ merge.req["port"] = "0"
    /\ merge.req["comment"] = "c"

====
